---- MODULE Spec2Model ----
(***************************************************************************)
(* Model of the price-lookup core of stylo_backend:                        *)
(*   enhanced_steam_scraper.py  name normalisation, the detail fetchers,   *)
(*                              EnhancedSteamScraper.search_game and       *)
(*                              search_multiple_games                      *)
(*   price_scrapers.py          the storefront adapters and                *)
(*                              GamePriceAggregator.get_prices             *)
(* Text is modelled as a sequence of one-character strings.                *)
(***************************************************************************)
EXTENDS Integers, Sequences, FiniteSets, TLC

(***************************************************************************)
(* Text helpers (Python str operations used by the source)                 *)
(***************************************************************************)
UpperChars == <<"A","B","C","D","E","F","G","H","I","J","K","L","M",
                "N","O","P","Q","R","S","T","U","V","W","X","Y","Z">>
LowerChars == <<"a","b","c","d","e","f","g","h","i","j","k","l","m",
                "n","o","p","q","r","s","t","u","v","w","x","y","z">>
DigitChars == <<"0","1","2","3","4","5","6","7","8","9">>

\* str.lower() on one character
LowerChar(c) ==
    IF \E i \in 1..Len(UpperChars) : UpperChars[i] = c
    THEN LowerChars[CHOOSE i \in 1..Len(UpperChars) : UpperChars[i] = c]
    ELSE c

\* str.lower()
StrLower(s) == [i \in 1..Len(s) |-> LowerChar(s[i])]

\* str.replace(ch, "")
StrRemove(s, ch) == SelectSeq(s, LAMBDA c : c # ch)

\* str.replace(ch, to) for single characters
StrReplace(s, ch, to) == [i \in 1..Len(s) |-> IF s[i] = ch THEN to ELSE s[i]]

\* " ".join(s.split()): runs of blanks become one blank, ends are trimmed
RECURSIVE SplitJoin(_)
SplitJoin(s) ==
    IF s = <<>> THEN <<>>
    ELSE IF Head(s) = " " THEN SplitJoin(Tail(s))
    ELSE LET rest == Tail(s)
         IN  IF rest = <<>> THEN <<Head(s)>>
             ELSE IF Head(rest) = " "
                  THEN LET more == SplitJoin(rest)
                       IN  IF more = <<>> THEN <<Head(s)>>
                           ELSE <<Head(s), " ">> \o more
                  ELSE <<Head(s)>> \o SplitJoin(rest)

\* Python "a in b" on strings
StrContains(b, a) ==
    \E i \in 1..(Len(b) - Len(a) + 1) : SubSeq(b, i, i + Len(a) - 1) = a

\* str.strip() of blanks
RECURSIVE StripLeft(_)
StripLeft(s) == IF s # <<>> /\ Head(s) = " " THEN StripLeft(Tail(s)) ELSE s
RECURSIVE StripRight(_)
StripRight(s) ==
    IF s # <<>> /\ s[Len(s)] = " " THEN StripRight(SubSeq(s, 1, Len(s) - 1)) ELSE s
StrStrip(s) == StripLeft(StripRight(s))

IsDigit(c) == \E i \in 1..Len(DigitChars) : DigitChars[i] = c
DigitVal(c) == (CHOOSE i \in 1..Len(DigitChars) : DigitChars[i] = c) - 1

RECURSIVE DigitsValue(_)
DigitsValue(ds) ==
    IF ds = <<>> THEN 0
    ELSE DigitsValue(SubSeq(ds, 1, Len(ds) - 1)) * 10 + DigitVal(ds[Len(ds)])

\* Python int(str): blanks stripped, optional sign, then digits, which single
\* underscores may separate; ok = FALSE stands for ValueError
ParseInt(s) ==
    LET t    == StrStrip(s)
        neg  == t # <<>> /\ Head(t) = "-"
        sgn  == t # <<>> /\ Head(t) \in {"-", "+"}
        body == IF sgn THEN Tail(t) ELSE t
        digits == StrRemove(body, "_")
    IN  IF /\ body # <<>>
           /\ \A i \in 1..Len(body) : IsDigit(body[i]) \/ body[i] = "_"
           /\ IsDigit(body[1]) /\ IsDigit(body[Len(body)])
           /\ \A i \in 1..(Len(body) - 1) : ~(body[i] = "_" /\ body[i+1] = "_")
        THEN [ok |-> TRUE,
              val |-> IF neg THEN 0 - DigitsValue(digits) ELSE DigitsValue(digits)]
        ELSE [ok |-> FALSE, val |-> 0]

(***************************************************************************)
(* enhanced_steam_scraper.py: module constants and pure functions          *)
(***************************************************************************)
CsgoAppId == 730

POPULAR_GAMES ==
    { [key |-> <<"c","o","u","n","t","e","r"," ","s","t","r","i","k","e"," ",
                 "g","l","o","b","a","l"," ",
                 "o","f","f","e","n","s","i","v","e">>, appid |-> CsgoAppId],
      [key |-> <<"c","s","g","o">>,     appid |-> CsgoAppId],
      [key |-> <<"c","s"," ","g","o">>, appid |-> CsgoAppId],
      [key |-> <<"c","s",":","g","o">>, appid |-> CsgoAppId] }

EXCLUDED_TERMS ==
    << <<"s","k","i","n">>,
       <<"s","o","u","n","d","t","r","a","c","k">>,
       <<"d","l","c">>,
       <<"t","r","a","i","l","e","r">>,
       <<"d","e","m","o">>,
       <<"s","e","r","v","e","r">>,
       <<"d","e","d","i","c","a","t","e","d">>,
       <<"t","e","s","t">> >>

\* normalize_game_name without the " ".join(name.split()) of line 44
normalize_without_collapse(name) ==
    StrReplace(StrRemove(StrLower(name), ":"), "-", " ")

normalize_game_name(name) ==
    SplitJoin(StrReplace(StrRemove(StrLower(name), ":"), "-", " "))

\* is_valid_app_id with `app_id >= 0` for the comparison of line 51
is_valid_app_id_or_zero(app_id_str) ==
    LET p == ParseInt(app_id_str) IN p.ok /\ p.val >= 0

is_valid_app_id(app_id_str) ==
    LET p == ParseInt(app_id_str) IN p.ok /\ p.val > 0

InPopular(norm)  == \E g \in POPULAR_GAMES : g.key = norm
PopularId(norm)  == (CHOOSE g \in POPULAR_GAMES : g.key = norm).appid

\* any(term in app["name"].lower() for term in EXCLUDED_TERMS)
HasExcludedTerm(name) ==
    \E i \in 1..Len(EXCLUDED_TERMS) : StrContains(StrLower(name), EXCLUDED_TERMS[i])

(***************************************************************************)
(* Bounds of the model                                                     *)
(***************************************************************************)
\* number of request slots (concurrent calls / detail-fetch tasks)
MaxSlots == 2
\* number of calls a caller makes in one behaviour
MaxCalls == 2
\* longest catalog listing handed to the scan on its own
MaxCatalogLen == 3

Slots == 1..MaxSlots
\* a call whose predecessors have all returned runs in the first frame
FirstSlot == CHOOSE u \in Slots : \A v \in Slots : u <= v

(***************************************************************************)
(* Detail endpoint: responses and payloads                                 *)
(***************************************************************************)
\* Python None (a missing details dict / quote)
None == [is_none |-> TRUE]

StatusOk          == 200
StatusRateLimited == 429
StatusError       == 500
RateLimitWait     == 5

\* price_overview blocks the endpoint can serve: minor units, discount percent
PriceBlocks ==
    { [final |-> 5999, initial |-> 5999, discount |-> 0],
      [final |-> 1999, initial |-> 3999, discount |-> 50] }

\* bodies of a 200 response of appdetails
\*   badjson   the body is not JSON
\*   noentry   the JSON has no entry for the appid (or is empty)
\*   nosuccess the entry's success flag is false
\*   nodata    success is set but there is no "data" key
\*   emptydata "data" is empty
\*   data      "data" is present, with or without price_overview / is_free
DataPayloads ==
    { [kind |-> "data", has_price |-> TRUE, price |-> b, is_free |-> f] :
          b \in PriceBlocks, f \in BOOLEAN }
    \cup
    { [kind |-> "data", has_price |-> FALSE,
       price |-> [final |-> 0, initial |-> 0, discount |-> 0], is_free |-> f] :
          f \in BOOLEAN }

BrokenPayloads ==
    { [kind |-> k, has_price |-> FALSE,
       price |-> [final |-> 0, initial |-> 0, discount |-> 0], is_free |-> FALSE] :
          k \in {"badjson", "noentry", "nosuccess", "nodata", "emptydata"} }

Payloads == DataPayloads \cup BrokenPayloads

NoPayload == [kind |-> "none", has_price |-> FALSE,
              price |-> [final |-> 0, initial |-> 0, discount |-> 0],
              is_free |-> FALSE]

NoResponse == [status |-> 0, payload |-> NoPayload]

ResponsesOver(ps) ==
    { [status |-> StatusOk, payload |-> p] : p \in ps }
    \cup { [status |-> s, payload |-> NoPayload] : s \in {StatusRateLimited, StatusError} }

Responses == ResponsesOver(Payloads)

\* minor units // 100: Div100 with the hundredths dropped
Div100Floor(n) == [whole |-> n \div 100, cents |-> 0]

\* minor units / 100 (Python true division), as whole units and hundredths
Div100(n) == [whole |-> n \div 100, cents |-> n % 100]

\* f"https://store.steampowered.com/app/{appid}"
SteamUrl(appid) == [host |-> "store.steampowered.com/app/", tail |-> appid]

\* the dict built from game_data by get_game_details_sync / _async
\* (has_initial_price: the "initial_price" entry is not None)
MakeDetails(appid, p) ==
    IF p.kind # "data" THEN None
    ELSE IF p.has_price
         THEN [appid                 |-> appid,
               price_numeric         |-> Div100(p.price.final),
               initial_price_numeric |-> Div100(p.price.initial),
               discount              |-> p.price.discount,
               has_initial_price     |-> p.price.discount > 0,
               free_to_play          |-> FALSE,
               url                   |-> SteamUrl(appid)]
    ELSE IF p.is_free
         THEN [appid                 |-> appid,
               price_numeric         |-> Div100(0),
               initial_price_numeric |-> Div100(0),
               discount              |-> 0,
               has_initial_price     |-> FALSE,
               free_to_play          |-> TRUE,
               url                   |-> SteamUrl(appid)]
    ELSE None

(***************************************************************************)
(* Detail fetcher: get_game_details_sync / get_game_details_async          *)
(* One record per slot; pc is the position inside the call.                *)
(***************************************************************************)
\* fetch: the frames; closed: the HTTP sessions that have been closed
VARIABLES fetch, closed
fetchVars == <<fetch, closed>>

\* the session a scraper opens for itself in __aenter__ (async with Scraper())
OwnSession == 0

\* a request through a closed session raises before anything is sent
Reachable(session, answers) == IF session \in closed THEN {} ELSE answers

AppIds == {CsgoAppId, 10, 20, 30}

IdleFetch ==
    [pc |-> "idle", mode |-> "async", appid |-> 0, session |-> OwnSession, reqs |-> 0,
     resp1 |-> NoResponse, resp2 |-> NoResponse,
     released |-> FALSE, waited |-> 0, result |-> None, raised |-> "nothing"]

\* entry of the call: nothing requested yet
NewFetch(mode, appid, session) ==
    [IdleFetch EXCEPT !.pc = "send", !.mode = mode, !.appid = appid,
                      !.session = session]

\* the response object the parsing code reads: `response` after the 429 branch
CurrentResponse(f) == IF f.reqs = 2 THEN f.resp2 ELSE f.resp1

\* else: return None
FetchFailed(f) == [f EXCEPT !.pc = "done", !.result = None]

\* what parsing a 200 body raises: response.json() on a body that is no JSON,
\* app_data["data"] on an entry without that key
ParseRaises(p) ==
    IF p.kind = "badjson" THEN "ValueError"
    ELSE IF p.kind = "nodata" THEN "KeyError"
    ELSE "none"

\* except ValueError (around the parsing only)
InnerHandles(exc) == exc = "ValueError"

\* an outer handler that lets every exception pass
OuterHandlesNothing(exc) == FALSE

\* except Exception (around the whole body)
OuterHandles(exc) == exc \in {"ValueError", "KeyError", "ConnectionError"}

\* exc is raised inside the call (parsing: inside the inner try as well):
\* a handler returns None, otherwise exc reaches the caller
Thrown(f, exc, parsing) ==
    IF (parsing /\ InnerHandles(exc)) \/ OuterHandles(exc)
    THEN [f EXCEPT !.pc = "done", !.result = None]
    ELSE [f EXCEPT !.pc = "done", !.result = None, !.raised = exc]

\* a first request whose 429 is followed by the retry at once, without the sleep
AfterFirstResponseNoWait(f, resp) ==
    [f EXCEPT !.reqs  = 1,
              !.resp1 = resp,
              !.pc    = IF resp.status = StatusRateLimited THEN "retry" ELSE "read"]

\* requests.get(url) / session.get(url): first request
AfterFirstResponse(f, resp) ==
    [f EXCEPT !.reqs  = 1,
              !.resp1 = resp,
              !.pc    = IF resp.status = StatusRateLimited THEN "backoff" ELSE "read"]

\* time.sleep(5) / await asyncio.sleep(5)
AfterBackoff(f) == [f EXCEPT !.waited = @ + RateLimitWait, !.pc = "retry"]

\* the retry request; the async version leaves `async with ... as retry_response`
\* before it reads the body, which releases that response
AfterRetryResponse(f, resp) ==
    [f EXCEPT !.reqs     = 2,
              !.resp2    = resp,
              !.released = (f.mode = "async"),
              !.pc       = "read"]

\* if response.status == 200: parse the body; else: return None
AfterRead(f, readOk) ==
    LET response == CurrentResponse(f)
    IN  IF response.status # StatusOk THEN FetchFailed(f)
        ELSE IF ~readOk THEN Thrown(f, "ConnectionError", TRUE)
        ELSE IF ParseRaises(response.payload) # "none"
        THEN Thrown(f, ParseRaises(response.payload), TRUE)
        ELSE [f EXCEPT !.pc = "done",
                       !.result = MakeDetails(f.appid, response.payload)]

\* Reading the body of a released response is outside the client library's
\* contract: the read either fails (connection closed) or still delivers.
ReadOutcomes(f) == IF f.released THEN BOOLEAN ELSE {TRUE}

\* Yields for a fetcher that sleeps with time.sleep in a coroutine
YieldsNever(f) == FALSE

\* await asyncio.sleep(5) suspends only the task that sleeps; time.sleep(5)
\* keeps the thread, and with it every other task of the event loop
Yields(f) == f.mode = "async"

\* no other call is sleeping on the thread that task t needs
ThreadFree(t) ==
    \A u \in Slots \ {t} : fetch[u].pc = "backoff" => Yields(fetch[u])

FetchSend(t, rs) ==
    /\ fetch[t].pc = "send"
    /\ ThreadFree(t)
    /\ \/ fetch' = [fetch EXCEPT ![t] = Thrown(@, "ConnectionError", FALSE)]
       \/ \E resp \in Reachable(fetch[t].session, rs) :
             fetch' = [fetch EXCEPT ![t] = AfterFirstResponse(@, resp)]
    /\ UNCHANGED closed

FetchBackoff(t) ==
    /\ fetch[t].pc = "backoff"
    /\ ThreadFree(t)
    /\ fetch' = [fetch EXCEPT ![t] = AfterBackoff(@)]
    /\ UNCHANGED closed

FetchRetry(t, rs) ==
    /\ fetch[t].pc = "retry"
    /\ ThreadFree(t)
    /\ \/ fetch' = [fetch EXCEPT ![t] = Thrown(@, "ConnectionError", FALSE)]
       \/ \E resp \in Reachable(fetch[t].session, rs) :
             fetch' = [fetch EXCEPT ![t] = AfterRetryResponse(@, resp)]
    /\ UNCHANGED closed

FetchRead(t) ==
    /\ fetch[t].pc = "read"
    /\ ThreadFree(t)
    /\ \E ok \in ReadOutcomes(fetch[t]) :
          fetch' = [fetch EXCEPT ![t] = AfterRead(@, ok)]
    /\ UNCHANGED closed

\* a caller invokes one of the two fetchers; calls follow one another and
\* the frame of a returned call is gone
FetchCall(t) ==
    /\ \A u \in Slots : fetch[u].pc \in {"idle", "done"}
    /\ t = FirstSlot
    /\ \E mode \in {"sync", "async"}, appid \in AppIds :
          fetch' = [u \in Slots |-> IF u = t THEN NewFetch(mode, appid, OwnSession)
                                     ELSE IdleFetch]
    /\ UNCHANGED closed

(***************************************************************************)
(* Upstream data seen by EnhancedSteamScraper                              *)
(***************************************************************************)
\* queries: an app id, an alias, an exact catalog name, a name fragment,
\* a title nothing matches
TitleId     == <<"7","3","0">>
TitleAlias  == <<"c","s",":","g","o">>
TitleExact  == <<"W","-","3">>
TitleFrag   == <<"w">>
TitleNoSuch == <<"z","z">>
\* the other spellings of the alias: "csgo" and "CS  go"
TitleAliasPlain  == <<"c","s","g","o">>
TitleAliasSpaced == <<"C","S"," "," ","g","o">>
AliasTitles == {TitleAlias, TitleAliasPlain, TitleAliasSpaced}
Titles == {TitleId, TitleExact, TitleFrag, TitleNoSuch} \cup AliasTitles

\* listings ISteamApps.GetAppList can return ("applist" -> "apps")
CatalogWitcher ==
    << [appid |-> 10, name |-> <<"W"," ","3",":"," ","X">>],
       [appid |-> 20, name |-> <<"W"," ","3"," ","D","L","C">>],
       [appid |-> 30, name |-> <<"W"," ","3">>] >>
CatalogOther ==
    << [appid |-> 20, name |-> <<"w","-","d","e","m","o">>],
       [appid |-> 10, name |-> <<"O","w","l">>] >>
Catalogs == {CatalogWitcher, CatalogOther}

\* first item of a storesearch answer
RemoteHits ==
    { [id |-> 10, name |-> <<"W"," ","3",":"," ","X">>],
      [id |-> 20, name |-> <<"W"," ","3"," ","D","L","C">>] }

NoCandidate == [id |-> 0, name |-> <<>>]

\* storesearch outcomes: the request raises, a non-200 status, a 200 answer
\* without items, a 200 answer whose first item is a hit
RemoteOutcomes ==
    { [kind |-> k, hit |-> NoCandidate] : k \in {"error", "non200", "noitems"} }
    \cup { [kind |-> "items", hit |-> h] : h \in RemoteHits }

\* ISteamApps.GetAppList outcomes: raises, returns something falsy, returns
\* the listing
CatalogOutcomes == {"error", "empty", "ok"}

max_retries == 3
CatalogRetryWait == 2

(***************************************************************************)
(* Catalog scan of search_game / search_multiple_games                     *)
(***************************************************************************)
ExactMatches(apps, normalized_search) ==
    SelectSeq(apps, LAMBDA app :
        /\ normalized_search = normalize_game_name(app.name)
        /\ ~HasExcludedTerm(app.name))

ContainsMatches(apps, normalized_search) ==
    SelectSeq(apps, LAMBDA app :
        /\ StrContains(normalize_game_name(app.name), normalized_search)
        /\ ~HasExcludedTerm(app.name))

\* ScanCatalog with the contains matches appended to the exact ones
ScanCatalogBothTiers(apps, normalized_search) ==
    ExactMatches(apps, normalized_search) \o ContainsMatches(apps, normalized_search)

\* results = exact matches; if not results: results = contains matches
ScanCatalog(apps, normalized_search) ==
    LET exact == ExactMatches(apps, normalized_search)
    IN  IF exact # <<>> THEN exact ELSE ContainsMatches(apps, normalized_search)

\* search_multiple_games, lines 413-427: the same two comprehensions
MatchedApps(apps, normalized_search) ==
    LET matched_apps ==
            SelectSeq(apps, LAMBDA app :
                /\ normalized_search = normalize_game_name(app.name)
                /\ ~HasExcludedTerm(app.name))
    IN  IF matched_apps # <<>> THEN matched_apps
        ELSE SelectSeq(apps, LAMBDA app :
                /\ StrContains(normalize_game_name(app.name), normalized_search)
                /\ ~HasExcludedTerm(app.name))

(***************************************************************************)
(* The scan on its own: any listing of up to MaxCatalogLen names           *)
(***************************************************************************)
VARIABLE scan

ScanNames ==
    { <<"W"," ","3">>, <<"w","-","3">>, <<"W"," ","3",":"," ","X">>,
      <<"W"," ","3"," ","D","L","C">>, <<"O","w","l">> }

ScanTitles ==
    { <<"W","-","3">>, <<"w">>, <<"z","z">>, <<"w"," ","3"," ","d","l","c">> }

\* listings: entry i carries its listing position as appid
ScanCatalogs ==
    UNION { { [i \in 1..n |-> [appid |-> i, name |-> names[i]]] :
                names \in [1..n -> ScanNames] } : n \in 0..MaxCatalogLen }

IdleScan == [by |-> "nobody", title |-> <<>>, apps |-> <<>>, results |-> <<>>]

\* search_game reaches line 346 with the listing and the normalised title
ScanInSearchGame ==
    /\ scan.by = "nobody"
    /\ scan' = [scan EXCEPT !.by = "search_game",
                            !.results = ScanCatalog(scan.apps,
                                                    normalize_game_name(scan.title))]

\* search_multiple_games reaches line 413
ScanInSearchMultiple ==
    /\ scan.by = "nobody"
    /\ scan' = [scan EXCEPT !.by = "search_multiple_games",
                            !.results = MatchedApps(scan.apps,
                                                    normalize_game_name(scan.title))]

(***************************************************************************)
(* normalize_game_name on its own: any name of up to MaxNameLen characters *)
(***************************************************************************)
\* norm: the stand-alone normalisation; mg: the frame of
\* get_multiple_game_prices / search_multiple_games (defined further down)
\* idv: the stand-alone is_valid_app_id
VARIABLES norm, mg, idv
otherVars == <<scan, norm, mg, idv>>

\* longest name handed to normalize_game_name on its own
MaxNameLen == 4

NormChars == {"A", "a", ":", "-", " "}
NormNames == UNION { [1..n -> NormChars] : n \in 0..MaxNameLen }

ExampleTitle ==
    <<"C","o","u","n","t","e","r","-","S","t","r","i","k","e",":"," ",
      "G","l","o","b","a","l"," ","O","f","f","e","n","s","i","v","e">>
ExamplePlain ==
    <<"c","o","u","n","t","e","r"," ","s","t","r","i","k","e"," ",
      "g","l","o","b","a","l"," ","o","f","f","e","n","s","i","v","e">>

\* the other case of a letter
SwapCase(c) ==
    IF \E i \in 1..Len(UpperChars) : UpperChars[i] = c
    THEN LowerChars[CHOOSE i \in 1..Len(UpperChars) : UpperChars[i] = c]
    ELSE IF \E i \in 1..Len(LowerChars) : LowerChars[i] = c
    THEN UpperChars[CHOOSE i \in 1..Len(LowerChars) : LowerChars[i] = c]
    ELSE c

InsertAt(s, i, c) == SubSeq(s, 1, i) \o <<c>> \o SubSeq(s, i + 1, Len(s))

\* other spellings of a name: one letter in the other case, a colon added,
\* a hyphen for a blank or a blank for a hyphen, a blank doubled
Spellings(s) ==
    { [s EXCEPT ![i] = SwapCase(s[i])] : i \in 1..Len(s) }
    \cup { InsertAt(s, i, ":") : i \in 0..Len(s) }
    \cup { [s EXCEPT ![i] = " "] : i \in {j \in 1..Len(s) : s[j] = "-"} }
    \cup { [s EXCEPT ![i] = "-"] : i \in {j \in 1..Len(s) : s[j] = " "} }
    \cup { InsertAt(s, i, " ") : i \in {j \in 1..Len(s) : s[j] = " "} }
    \cup (IF s = ExampleTitle THEN {ExamplePlain} ELSE {})

IdleNorm == [pc |-> "idle", name |-> <<>>, once |-> <<>>, twice |-> <<>>,
             other |-> <<>>, other_once |-> <<>>]

\* normalize_game_name(name)
NormalizeOnce ==
    /\ norm.pc = "input"
    /\ norm' = [norm EXCEPT !.pc = "once", !.once = normalize_game_name(norm.name)]

\* normalize_game_name applied to its own result
NormalizeAgain ==
    /\ norm.pc = "once"
    /\ norm' = [norm EXCEPT !.pc = "twice", !.twice = normalize_game_name(norm.once)]

\* normalize_game_name applied to another spelling of the name
NormalizeSpelling ==
    /\ norm.pc = "once"
    /\ \E other \in Spellings(norm.name) :
          norm' = [norm EXCEPT !.pc = "spelling", !.other = other,
                               !.other_once = normalize_game_name(other)]

(***************************************************************************)
(* is_valid_app_id on its own: any token of up to MaxTokenLen characters   *)
(***************************************************************************)
\* longest token handed to is_valid_app_id on its own
MaxTokenLen == 3

TokenChars == {"0", "7", "-", "+", " ", "a", "_"}
Tokens == UNION { [1..n -> TokenChars] : n \in 0..MaxTokenLen }

IdleId == [pc |-> "idle", token |-> <<>>, valid |-> FALSE, raised |-> "nothing"]

\* is_valid_app_id(token): int() raises nothing but ValueError on a str, and
\* line 52 catches it
CheckId ==
    /\ idv.pc = "input"
    /\ idv' = [idv EXCEPT !.pc = "done", !.valid = is_valid_app_id(idv.token)]

(***************************************************************************)
(* Quotes                                                                  *)
(***************************************************************************)
\* the dict search_game builds from a details dict; stage and cand_name
\* record which matching stage and which candidate the quote comes from
MakeQuote(details, stage, cand_name) ==
    [platform         |-> "Steam",
     appid            |-> details.appid,
     price            |-> details.price_numeric,
     initial_price    |-> details.initial_price_numeric,
     discount_percent |-> details.discount,
     is_sale          |-> details.discount > 0,
     url              |-> details.url,
     stage            |-> stage,
     cand_name        |-> cand_name]

\* the dict built inline from the storesearch hit and the appdetails answer
\* (price_data = data.get("price_overview", {}), fields default to 0)
MakeStoreQuote(hit, p) ==
    LET price_data == IF p.kind = "data" /\ p.has_price THEN p.price
                      ELSE [final |-> 0, initial |-> 0, discount |-> 0]
    IN  [platform         |-> "Steam",
         appid            |-> hit.id,
         price            |-> Div100(price_data.final),
         initial_price    |-> Div100(price_data.initial),
         discount_percent |-> price_data.discount,
         is_sale          |-> price_data.discount > 0,
         url              |-> SteamUrl(hit.id),
         stage            |-> "Remote",
         cand_name        |-> hit.name]

\* answers to the inline appdetails request: raises, non-200, or 200 + body
StoreOutcomes(ps) ==
    { [kind |-> k, payload |-> NoPayload] : k \in {"error", "non200"} }
    \cup { [kind |-> "ok", payload |-> p] : p \in ps }

(***************************************************************************)
(* EnhancedSteamScraper.search_game                                        *)
(* sg[r] is the frame of the call in slot r; its detail fetches run in     *)
(* fetch[r].  result is the returned value and raised the exception that   *)
(* reaches the caller; trace lists the stages entered, na records that a   *)
(* candidate's detail fetch came back without details, load_failed that    *)
(* every GetAppList attempt failed, payload the body of the appdetails      *)
(* answer the call read last.                                              *)
(***************************************************************************)
VARIABLES sg, catalog, catalogLoads, calls

IdleSearch ==
    [pc |-> "idle", title |-> <<>>, normalized_search |-> <<>>, session |-> OwnSession,
     attempt |-> 0,
     cand |-> NoCandidate, results |-> <<>>, result |-> None, trace |-> <<>>,
     raised |-> "nothing", na |-> FALSE, load_failed |-> FALSE, waited |-> 0,
     payload |-> NoPayload]

SearchReturn(s, result) == [s EXCEPT !.pc = "done", !.result = result]

\* SearchEntry with the catalog consulted before the live search
SearchEntryCatalogFirst(title, session) ==
    LET normalized_search == normalize_game_name(title)
        s == [IdleSearch EXCEPT !.title = title, !.session = session,
                                !.normalized_search = normalized_search]
    IN  IF is_valid_app_id(title)
        THEN [s EXCEPT !.pc = "direct", !.trace = <<"Direct">>,
                       !.cand = [id |-> ParseInt(title).val, name |-> <<>>]]
        ELSE IF InPopular(normalized_search)
        THEN [s EXCEPT !.pc = "alias", !.trace = <<"Alias">>,
                       !.cand = [id |-> PopularId(normalized_search), name |-> <<>>]]
        ELSE [s EXCEPT !.pc = "catalog"]

\* lines 237-275: the app-id check and the popular-games check
SearchEntry(title, session) ==
    LET normalized_search == normalize_game_name(title)
        s == [IdleSearch EXCEPT !.title = title, !.session = session,
                                !.normalized_search = normalized_search]
    IN  IF is_valid_app_id(title)
        THEN [s EXCEPT !.pc = "direct", !.trace = <<"Direct">>,
                       !.cand = [id |-> ParseInt(title).val, name |-> <<>>]]
        ELSE IF InPopular(normalized_search)
        THEN [s EXCEPT !.pc = "alias", !.trace = <<"Alias">>,
                       !.cand = [id |-> PopularId(normalized_search), name |-> <<>>]]
        ELSE [s EXCEPT !.pc = "remote"]

\* AfterDirectDetails without the `return None` of line 255: the call goes on
\* to the live search as the popular-games branch does
AfterDirectDetailsFallsThrough(s, details) ==
    IF details # None
    THEN SearchReturn(s, MakeQuote(details, "Direct", s.cand.name))
    ELSE [s EXCEPT !.na = TRUE, !.pc = "remote"]

\* lines 241-255: if details: return {...}; return None
AfterDirectDetails(s, details) ==
    IF details # None
    THEN SearchReturn(s, MakeQuote(details, "Direct", s.cand.name))
    ELSE SearchReturn([s EXCEPT !.na = TRUE], None)

\* lines 262-275: if details: return {...}   (no return otherwise)
AfterAliasDetails(s, details) ==
    IF details # None
    THEN SearchReturn(s, MakeQuote(details, "Alias", s.cand.name))
    ELSE [s EXCEPT !.na = TRUE, !.pc = "remote"]

\* lines 278-285: the storesearch request
AfterRemoteSearch(s, out) ==
    LET t == [s EXCEPT !.trace = Append(@, "Remote")]
    IN  IF out.kind = "items"
        THEN [t EXCEPT !.pc = "store", !.cand = out.hit]
        ELSE [t EXCEPT !.pc = "catalog"]

\* lines 288-322: the inline appdetails request for the hit
AfterStoreDetails(s, out) ==
    LET t == [s EXCEPT !.payload = out.payload]
    IN  IF out.kind \in {"error", "non200"} \/ out.payload.kind = "badjson"
        THEN [t EXCEPT !.na = TRUE, !.pc = "catalog"]
        ELSE IF out.payload.kind \in {"noentry", "nosuccess"}
        THEN SearchReturn([t EXCEPT !.na = TRUE], None)
        ELSE SearchReturn(t, MakeStoreQuote(t.cand, out.payload))

\* a scan after which the details of the last result are fetched
AfterCatalogLoadedLastResult(s, apps) ==
    LET exact   == ExactMatches(apps, s.normalized_search)
        results == ScanCatalog(apps, s.normalized_search)
        t == [s EXCEPT !.results = results,
                       !.trace = @ \o (IF exact # <<>> THEN <<"Exact">>
                                       ELSE <<"Exact", "Substring">>)]
    IN  IF results = <<>>
        THEN SearchReturn(t, None)
        ELSE [t EXCEPT !.pc = "catfetch",
                       !.cand = [id |-> results[Len(results)].appid,
                                 name |-> results[Len(results)].name]]

\* lines 346-363: the scan after a successful GetAppList
AfterCatalogLoaded(s, apps) ==
    LET exact   == ExactMatches(apps, s.normalized_search)
        results == ScanCatalog(apps, s.normalized_search)
        t == [s EXCEPT !.results = results,
                       !.trace = @ \o (IF exact # <<>> THEN <<"Exact">>
                                       ELSE <<"Exact", "Substring">>)]
    IN  IF results = <<>>
        THEN SearchReturn(t, None)
        ELSE [t EXCEPT !.pc = "catfetch",
                       !.cand = [id |-> results[1].appid, name |-> results[1].name]]

\* a retry loop that sleeps and tries again after the max_retries-th failure too
AfterGetAppListOneMore(s, out, apps) ==
    LET t == IF s.attempt = 0 THEN [s EXCEPT !.trace = Append(@, "CatalogLoad")] ELSE s
    IN  IF out = "error"
        THEN IF s.attempt < max_retries
             THEN [t EXCEPT !.pc = "catwait"]
             ELSE SearchReturn([t EXCEPT !.load_failed = TRUE], None)
        ELSE IF out = "empty"
        THEN SearchReturn(t, None)
        ELSE AfterCatalogLoaded(t, apps)

\* lines 329-343: one pass of the retry loop around GetAppList
AfterGetAppList(s, out, apps) ==
    LET t == IF s.attempt = 0 THEN [s EXCEPT !.trace = Append(@, "CatalogLoad")] ELSE s
    IN  IF out = "error"
        THEN IF s.attempt < max_retries - 1
             THEN [t EXCEPT !.pc = "catwait"]
             ELSE SearchReturn([t EXCEPT !.load_failed = TRUE], None)
        ELSE IF out = "empty"
        THEN SearchReturn(t, None)
        ELSE AfterCatalogLoaded(t, apps)

\* a wait after which the loop repeats the same pass
AfterCatalogWaitSamePass(s) == [s EXCEPT !.pc = "catalog"]

\* line 335: await asyncio.sleep(2), then the next pass
AfterCatalogWait(s) ==
    [s EXCEPT !.pc = "catalog", !.attempt = @ + 1, !.waited = @ + CatalogRetryWait]

\* lines 366-385: details of the first result
AfterCatalogDetails(s, details) ==
    IF details # None
    THEN SearchReturn(s, MakeQuote(details,
                                   s.trace[Len(s.trace)], s.cand.name))
    ELSE SearchReturn([s EXCEPT !.na = TRUE], None)

\* the frame once the awaited fetch f has returned: the body f read is noted
Seen(s, f) == [s EXCEPT !.payload = CurrentResponse(f).payload]

\* details = await get_game_details_async(app_id, self.session)
NeedsFetch(s) == s.pc \in {"direct", "alias", "catfetch"}
FetchFor(s, f) ==
    IF NeedsFetch(s) THEN NewFetch("async", s.cand.id, s.session) ELSE f

\* an answer set seen through the frame's session; a request that cannot be
\* sent is the "error" answer
Answers(session, outs) ==
    IF session \in closed THEN {o \in outs : o.kind = "error"} ELSE outs

\* a caller awaits search_game(title); calls on the scraper follow one another
\* and the frame of a returned call is gone
SG_Call(r) ==
    /\ \A u \in Slots : sg[u].pc \in {"idle", "done"}
    /\ r = FirstSlot
    /\ calls < MaxCalls
    /\ calls' = calls + 1
    /\ \E title \in Titles :
          LET s == SearchEntry(title, OwnSession)
          IN  /\ sg' = [u \in Slots |-> IF u = r THEN s ELSE IdleSearch]
              /\ fetch' = [fetch EXCEPT ![r] = FetchFor(s, @)]
    /\ UNCHANGED <<catalog, catalogLoads, closed>>

SG_DirectDetails(r) ==
    /\ sg[r].pc = "direct" /\ fetch[r].pc = "done"
    /\ sg' = [sg EXCEPT ![r] = AfterDirectDetails(Seen(@, fetch[r]), fetch[r].result)]
    /\ fetch' = [fetch EXCEPT ![r] = IdleFetch]
    /\ UNCHANGED <<catalog, catalogLoads, calls, closed>>

SG_AliasDetails(r) ==
    /\ sg[r].pc = "alias" /\ fetch[r].pc = "done"
    /\ sg' = [sg EXCEPT ![r] = AfterAliasDetails(Seen(@, fetch[r]), fetch[r].result)]
    /\ fetch' = [fetch EXCEPT ![r] = IdleFetch]
    /\ UNCHANGED <<catalog, catalogLoads, calls, closed>>

SG_RemoteSearch(r, outs) ==
    /\ sg[r].pc = "remote"
    /\ \E out \in Answers(sg[r].session, outs) :
          sg' = [sg EXCEPT ![r] = AfterRemoteSearch(@, out)]
    /\ UNCHANGED <<fetch, catalog, catalogLoads, calls, closed>>

SG_StoreDetails(r, ps) ==
    /\ sg[r].pc = "store"
    /\ \E out \in Answers(sg[r].session, StoreOutcomes(ps)) :
          sg' = [sg EXCEPT ![r] = AfterStoreDetails(@, out)]
    /\ UNCHANGED <<fetch, catalog, catalogLoads, calls, closed>>

SG_GetAppList(r, outs) ==
    /\ sg[r].pc = "catalog"
    /\ \E out \in outs :
          LET s == AfterGetAppList(sg[r], out, catalog)
          IN  /\ sg' = [sg EXCEPT ![r] = s]
              /\ fetch' = [fetch EXCEPT ![r] = FetchFor(s, @)]
              /\ catalogLoads' = IF out = "error" THEN catalogLoads
                                 ELSE catalogLoads + 1
    /\ UNCHANGED <<catalog, calls, closed>>

SG_CatalogWait(r) ==
    /\ sg[r].pc = "catwait"
    /\ sg' = [sg EXCEPT ![r] = AfterCatalogWait(@)]
    /\ UNCHANGED <<fetch, catalog, catalogLoads, calls, closed>>

SG_CatalogDetails(r) ==
    /\ sg[r].pc = "catfetch" /\ fetch[r].pc = "done"
    /\ sg' = [sg EXCEPT ![r] = AfterCatalogDetails(Seen(@, fetch[r]), fetch[r].result)]
    /\ fetch' = [fetch EXCEPT ![r] = IdleFetch]
    /\ UNCHANGED <<catalog, catalogLoads, calls, closed>>

(***************************************************************************)
(* price_scrapers.py: the storefront adapters and GamePriceAggregator      *)
(* gp[c] is the frame of get_prices in slot c, st[c] the frame of the      *)
(* SteamScraper.search_game task it gathers; that task runs the enhanced   *)
(* scraper in sg[c] / fetch[c].                                            *)
(*   hits            the adapters whose storefront answered with an item   *)
(*   scraperSession  the `session` attribute of the aggregator's scrapers  *)
(*   enhanced        SteamScraper.enhanced_scraper and its own session     *)
(***************************************************************************)
VARIABLES gp, st, scraperSession, enhanced
aggVars == <<gp, st, scraperSession, enhanced>>

\* GamePriceAggregator.scrapers, by platform, in list order
AdapterNames ==
    <<"Steam", "Epic Games", "GOG", "PlayStation Store", "Xbox Store", "Nintendo eShop">>
AdapterSet == {AdapterNames[i] : i \in 1..Len(AdapterNames)}
\* the four adapters that send one search request and quote its first product
RequestAdapters == {"GOG", "PlayStation Store", "Xbox Store", "Nintendo eShop"}

Pending == [is_pending |-> TRUE]
Raised  == [is_exception |-> TRUE]
IsQuote(x) == x # None /\ x # Pending /\ x # Raised

NoEnhanced == [created |-> FALSE, session |-> OwnSession]

IdlePrices ==
    [pc |-> "idle", title |-> <<>>, session |-> OwnSession,
     results |-> [a \in AdapterSet |-> Pending],
     prices |-> <<>>, raised |-> "nothing",
     hits |-> {}, timed_out |-> FALSE]

IdleSteam == [pc |-> "idle", hit |-> NoCandidate]

\* EpicGamesScraper.search_game: the mock answer
EpicQuote(title) ==
    [platform |-> "Epic Games", title |-> title, price |-> Div100(5999),
     is_sale |-> FALSE,
     url |-> [host |-> "store.epicgames.com/search/", tail |-> title]]

\* the url prefix each adapter puts before the product's id (GOG: its path)
ProductHost(platform) ==
    CASE platform = "GOG"               -> "www.gog.com"
      [] platform = "PlayStation Store" -> "store.playstation.com/product/"
      [] platform = "Xbox Store"        -> "www.xbox.com/games/store/"
      [] platform = "Nintendo eShop"    -> "www.nintendo.com/store/products/"

\* id (GOG: url path) of the first product of a storefront's answer
ProductId == <<"w","3">>

\* ProductQuote with one url prefix for the four storefronts
ProductQuoteSharedHost(platform, title) ==
    [platform |-> platform, title |-> title, price |-> Div100(5999),
     is_sale |-> FALSE,
     url |-> [host |-> "www.gog.com", tail |-> ProductId]]

\* GOG / PlayStation / Xbox / Nintendo: the dict built from the first product
ProductQuote(platform, title) ==
    [platform |-> platform, title |-> title, price |-> Div100(5999),
     is_sale |-> FALSE,
     url |-> [host |-> ProductHost(platform), tail |-> ProductId]]

\* SteamScraper.search_game lines 91-115: the fallback's own quote
MakeFallbackQuote(hit, p) ==
    [MakeStoreQuote(hit, p) EXCEPT !.stage = "Fallback"]

\* answers to an adapter's search request
ProductOutcomes ==
    { [kind |-> k] : k \in {"error", "non200", "noitems", "items"} }

\* EnhancedSteamScraper() runs WebAPI(key=...), which can raise
ConstructorOutcomes == {"ok", "raises"}

\* the optional GetSchemaForGame request (only when api_key is set)
SchemaOutcomes == { [kind |-> k] : k \in {"error", "ok"} }

SetResult(g, a, result) == [g EXCEPT !.results[a] = result]

\* the task of adapter a is done: gather has its result
Finish(g, a, result) == SetResult(g, a, result)

\* a collection loop that stops at the first result that is no dict (what
\* get_prices would do without the isinstance filter of line 303)
RECURSIVE QuotesUntilFailure(_, _)
QuotesUntilFailure(results, i) ==
    IF i > Len(AdapterNames) THEN <<>>
    ELSE IF IsQuote(results[AdapterNames[i]])
         THEN <<results[AdapterNames[i]]>> \o QuotesUntilFailure(results, i + 1)
         ELSE <<>>
CollectStopsAtFailure(results) == QuotesUntilFailure(results, 1)

\* lines 301-304: gather(return_exceptions=True), keep the dict results in
\* task order
RECURSIVE QuotesFrom(_, _)
QuotesFrom(results, i) ==
    IF i > Len(AdapterNames) THEN <<>>
    ELSE (IF IsQuote(results[AdapterNames[i]]) THEN <<results[AdapterNames[i]]>>
          ELSE <<>>) \o QuotesFrom(results, i + 1)
CollectPrices(results) == QuotesFrom(results, 1)

Gathering(c, a) == gp[c].pc = "gather" /\ gp[c].results[a] = Pending

\* no detail fetch is sleeping on the event loop's thread
LoopFree == \A u \in Slots : fetch[u].pc = "backoff" => Yields(fetch[u])

\* lines 293-299: open the session, hand it to every scraper, create the tasks
GP_Call(c, titles) ==
    /\ \A u \in Slots : gp[u].pc \in {"idle", "done"}
    /\ c = FirstSlot
    /\ calls < MaxCalls
    /\ calls' = calls + 1
    /\ scraperSession' = calls + 1
    /\ \E title \in titles :
          gp' = [u \in Slots |->
                    IF u = c THEN [IdlePrices EXCEPT !.pc = "gather", !.title = title,
                                                     !.session = calls + 1]
                    ELSE IdlePrices]
    /\ st' = [u \in Slots |-> IdleSteam]
    /\ sg' = [u \in Slots |-> IdleSearch]
    /\ fetch' = [u \in Slots |-> IdleFetch]
    /\ UNCHANGED <<closed, enhanced, catalog, catalogLoads, otherVars>>

\* a second caller awaits get_prices on the same aggregator while a call is
\* still gathering (PriceService keeps one aggregator for every request): the
\* new call runs lines 293-299 in a free frame
GP_CallConcurrent(c, titles) ==
    /\ gp[c].pc \in {"idle", "done"}
    /\ \A u \in Slots : u < c => gp[u].pc = "gather"
    /\ calls < MaxCalls
    /\ calls' = calls + 1
    /\ scraperSession' = calls + 1
    /\ \E title \in titles :
          gp' = [gp EXCEPT ![c] = [IdlePrices EXCEPT !.pc = "gather", !.title = title,
                                                     !.session = calls + 1]]
    /\ st' = [st EXCEPT ![c] = IdleSteam]
    /\ sg' = [sg EXCEPT ![c] = IdleSearch]
    /\ fetch' = [fetch EXCEPT ![c] = IdleFetch]
    /\ UNCHANGED <<closed, enhanced, catalog, catalogLoads, otherVars>>

\* SteamScraper.search_game lines 46-55: create the enhanced scraper on first
\* use (it keeps the session of that moment), then await its search_game
ST_Start(c) ==
    /\ Gathering(c, "Steam") /\ st[c].pc = "idle"
    /\ \E built \in (IF enhanced.created THEN {"ok"} ELSE ConstructorOutcomes) :
          IF built = "raises"
          THEN /\ gp' = [gp EXCEPT ![c] = Finish(@, "Steam", Raised)]
               /\ st' = [st EXCEPT ![c].pc = "done"]
               /\ UNCHANGED <<enhanced, sg, fetch>>
          ELSE LET e == IF enhanced.created THEN enhanced
                        ELSE [created |-> TRUE, session |-> scraperSession]
                   s == SearchEntry(gp[c].title, e.session)
               IN  /\ enhanced' = e
                   /\ sg' = [sg EXCEPT ![c] = s]
                   /\ fetch' = [fetch EXCEPT ![c] = FetchFor(s, @)]
                   /\ st' = [st EXCEPT ![c].pc = "enhanced"]
                   /\ UNCHANGED gp
    /\ UNCHANGED <<closed, scraperSession, catalog, catalogLoads, calls, otherVars>>

\* lines 55-60: if result: return result; otherwise the fallback begins
ST_EnhancedReturned(c) ==
    /\ Gathering(c, "Steam") /\ st[c].pc = "enhanced" /\ sg[c].pc = "done"
    /\ IF sg[c].result # None
       THEN /\ gp' = [gp EXCEPT ![c] = Finish([@ EXCEPT !.hits = @ \cup {"Steam"}],
                                              "Steam", sg[c].result)]
            /\ st' = [st EXCEPT ![c].pc = "done"]
       ELSE /\ st' = [st EXCEPT ![c].pc = "search"]
            /\ gp' = [gp EXCEPT ![c].hits = IF sg[c].cand.name # <<>>
                                            THEN @ \cup {"Steam"} ELSE @]
    /\ UNCHANGED <<fetchVars, sg, scraperSession, enhanced, catalog, catalogLoads,
                   calls, otherVars>>

\* lines 64-73: the fallback's storesearch request through self.session
ST_FallbackSearch(c, outs) ==
    /\ Gathering(c, "Steam") /\ st[c].pc = "search"
    /\ \E out \in Answers(scraperSession, outs) :
          IF out.kind = "items"
          THEN /\ st' = [st EXCEPT ![c].pc = "schema", ![c].hit = out.hit]
               /\ gp' = [gp EXCEPT ![c].hits = @ \cup {"Steam"}]
          ELSE /\ st' = [st EXCEPT ![c].pc = "done"]
               /\ gp' = [gp EXCEPT ![c] = Finish(@, "Steam", None)]
    /\ UNCHANGED <<fetchVars, sg, scraperSession, enhanced, catalog, catalogLoads,
                   calls, otherVars>>

\* lines 76-80: the schema request, skipped without an api key
ST_Schema(c) ==
    /\ Gathering(c, "Steam") /\ st[c].pc = "schema"
    /\ \/ /\ st' = [st EXCEPT ![c].pc = "store"]
          /\ UNCHANGED gp
       \/ \E out \in Answers(scraperSession, SchemaOutcomes) :
             IF out.kind = "error"
             THEN /\ st' = [st EXCEPT ![c].pc = "done"]
                  /\ gp' = [gp EXCEPT ![c] = Finish(@, "Steam", None)]
             ELSE /\ st' = [st EXCEPT ![c].pc = "store"]
                  /\ UNCHANGED gp
    /\ UNCHANGED <<fetchVars, sg, scraperSession, enhanced, catalog, catalogLoads,
                   calls, otherVars>>

\* lines 83-120: the appdetails request of the fallback
FallbackResult(hit, out) ==
    IF out.kind \in {"error", "non200"} THEN None
    ELSE IF out.payload.kind \in {"badjson", "noentry", "nosuccess"} THEN None
    ELSE MakeFallbackQuote(hit, out.payload)

ST_Store(c, ps) ==
    /\ Gathering(c, "Steam") /\ st[c].pc = "store"
    /\ \E out \in Answers(scraperSession, StoreOutcomes(ps)) :
          gp' = [gp EXCEPT ![c] = Finish(@, "Steam", FallbackResult(st[c].hit, out))]
    /\ st' = [st EXCEPT ![c].pc = "done"]
    /\ UNCHANGED <<fetchVars, sg, scraperSession, enhanced, catalog, catalogLoads,
                   calls, otherVars>>

\* EpicGamesScraper.search_game: no request is sent, the mock dict is returned
EP_Search(c) ==
    /\ Gathering(c, "Epic Games")
    /\ LoopFree
    /\ gp' = [gp EXCEPT ![c] = Finish(@, "Epic Games", EpicQuote(gp[c].title))]
    /\ UNCHANGED <<fetchVars, sg, st, scraperSession, enhanced, catalog, catalogLoads,
                   calls, otherVars>>

\* GOGScraper / PlayStationStoreScraper / XboxStoreScraper / NintendoShopScraper
ProductResult(a, title, out) ==
    IF out.kind = "items" THEN ProductQuote(a, title) ELSE None

AD_Search(c, a, outs) ==
    /\ Gathering(c, a)
    /\ LoopFree
    /\ \E out \in Answers(scraperSession, outs) :
          gp' = [gp EXCEPT ![c] =
                    Finish([@ EXCEPT !.hits = IF out.kind = "items" THEN @ \cup {a} ELSE @],
                           a, ProductResult(a, gp[c].title, out))]
    /\ UNCHANGED <<fetchVars, sg, st, scraperSession, enhanced, catalog, catalogLoads,
                   calls, otherVars>>

\* time passes at line 301: any overall deadline of the call is over while
\* tasks are still running (nothing in get_prices reacts to it)
GP_Deadline(c) ==
    /\ gp[c].pc = "gather" /\ ~gp[c].timed_out
    /\ \E a \in AdapterSet : gp[c].results[a] = Pending
    /\ gp' = [gp EXCEPT ![c].timed_out = TRUE]
    /\ UNCHANGED <<fetchVars, sg, st, scraperSession, enhanced, catalog, catalogLoads,
                   calls, otherVars>>

\* lines 301-306: gather returns once every task is done; collect, close the
\* session, return
GP_Return(c) ==
    /\ gp[c].pc = "gather"
    /\ \A a \in AdapterSet : gp[c].results[a] # Pending
    /\ gp' = [gp EXCEPT ![c].pc = "done", ![c].prices = CollectPrices(gp[c].results)]
    /\ closed' = closed \cup {gp[c].session}
    /\ UNCHANGED <<fetch, sg, st, scraperSession, enhanced, catalog, catalogLoads,
                   calls, otherVars>>

(***************************************************************************)
(* GamePriceAggregator.get_multiple_game_prices, SteamScraper and          *)
(* EnhancedSteamScraper.search_multiple_games                              *)
(* mg is the frame of the call; the detail fetches it gathers run in       *)
(* fetch[1..tasks].  mapping is the dict the aggregator returns.           *)
(***************************************************************************)
\* results = {"Steam": []}
SteamOnly(quotes) == [a \in {"Steam"} |-> quotes]

IdleMulti ==
    [pc |-> "idle", title |-> <<>>, normalized_search |-> <<>>, limit |-> 0,
     session |-> OwnSession, attempt |-> 0, matched_apps |-> <<>>, tasks |-> 0,
     results |-> <<>>, mapping |-> SteamOnly(<<>>), raised |-> "nothing"]

MultiTitles == {TitleExact, TitleFrag, TitleNoSuch, TitleId, TitleAliasPlain}
\* limit: the tasks of one call run in the request slots
Limits == {-1, 0} \cup Slots
MultiResponses ==
    ResponsesOver({ [kind |-> "data", has_price |-> TRUE,
                     price |-> [final |-> 5999, initial |-> 5999, discount |-> 0],
                     is_free |-> FALSE] })

\* Python seq[:limit]: the first limit items; with a negative limit all but
\* the last -limit items
SliceTo(seq, limit) ==
    IF limit >= 0
    THEN SubSeq(seq, 1, IF limit < Len(seq) THEN limit ELSE Len(seq))
    ELSE SubSeq(seq, 1, IF Len(seq) + limit > 0 THEN Len(seq) + limit ELSE 0)

\* price_scrapers.py lines 324-327: if steam_results: results["Steam"] = ...
MultiReturn(m, quotes) ==
    [m EXCEPT !.pc = "done", !.results = quotes, !.mapping = SteamOnly(quotes)]

\* lines 413-435: the scan, then one task per matched app up to limit
AfterMultiLoaded(m, apps) ==
    LET matched_apps == MatchedApps(apps, m.normalized_search)
    IN  IF matched_apps = <<>> THEN MultiReturn(m, <<>>)
        ELSE [m EXCEPT !.pc = "gather",
                       !.matched_apps = SliceTo(matched_apps, m.limit),
                       !.tasks = Len(SliceTo(matched_apps, m.limit))]

\* lines 396-410: one pass of the retry loop around GetAppList
AfterMultiGetAppList(m, out, apps) ==
    IF out = "error"
    THEN IF m.attempt < max_retries - 1
         THEN [m EXCEPT !.pc = "catwait"]
         ELSE MultiReturn(m, <<>>)
    ELSE IF out = "empty"
    THEN MultiReturn(m, <<>>)
    ELSE AfterMultiLoaded(m, apps)

\* lines 438-454: a quote for every details dict that is not None, in task order
RECURSIVE MultiQuotes(_, _, _)
MultiQuotes(m, frames, i) ==
    IF i > m.tasks THEN <<>>
    ELSE (IF frames[i].result # None
          THEN <<MakeQuote(frames[i].result, "Multi", m.matched_apps[i].name)>>
          ELSE <<>>) \o MultiQuotes(m, frames, i + 1)

\* price_scrapers.py line 315: leaving `async with` closes the call's session
ClosedAfter(m) == IF m.pc = "done" THEN closed \cup {m.session} ELSE closed

\* get_multiple_game_prices(game_title, limit): open the session, build the
\* SteamScraper and (lines 125-129) its EnhancedSteamScraper
MG_Call ==
    /\ mg.pc \in {"idle", "done"}
    /\ calls < MaxCalls
    /\ calls' = calls + 1
    /\ \E title \in MultiTitles, limit \in Limits, built \in ConstructorOutcomes :
          LET m == IF built = "raises"
                   THEN [IdleMulti EXCEPT !.pc = "done", !.title = title,
                                          !.limit = limit, !.session = calls + 1,
                                          !.raised = "WebAPI"]
                   ELSE [IdleMulti EXCEPT !.pc = "catalog", !.title = title,
                                          !.limit = limit, !.session = calls + 1,
                                          !.normalized_search = normalize_game_name(title)]
          IN  mg' = m /\ closed' = ClosedAfter(m)
    /\ fetch' = [u \in Slots |-> IdleFetch]
    /\ UNCHANGED <<sg, catalog, catalogLoads, scan, norm, idv, aggVars>>

MG_GetAppList(outs) ==
    /\ mg.pc = "catalog"
    /\ \E out \in outs :
          LET m == AfterMultiGetAppList(mg, out, catalog)
          IN  /\ mg' = m
              /\ fetch' = [u \in Slots |->
                              IF m.pc = "gather" /\ u <= m.tasks
                              THEN NewFetch("async", m.matched_apps[u].appid, m.session)
                              ELSE fetch[u]]
              /\ catalogLoads' = IF out = "error" THEN catalogLoads
                                 ELSE catalogLoads + 1
              /\ closed' = ClosedAfter(m)
    /\ UNCHANGED <<sg, catalog, calls, scan, norm, idv, aggVars>>

\* line 402: await asyncio.sleep(2), then the next pass
MG_CatalogWait ==
    /\ mg.pc = "catwait"
    /\ mg' = [mg EXCEPT !.pc = "catalog", !.attempt = @ + 1]
    /\ UNCHANGED <<fetchVars, sg, catalog, catalogLoads, calls, scan, norm, idv, aggVars>>

\* line 437 onwards: gather returns once every task is done
MG_Gathered ==
    /\ mg.pc = "gather"
    /\ \A u \in 1..mg.tasks : fetch[u].pc = "done"
    /\ mg' = MultiReturn(mg, MultiQuotes(mg, fetch, 1))
    /\ closed' = closed \cup {mg.session}
    /\ UNCHANGED <<fetch, sg, catalog, catalogLoads, calls, scan, norm, idv, aggVars>>

InitFetch ==
    /\ fetch = [t \in Slots |-> IdleFetch]
    /\ closed = {}
    /\ sg = [r \in Slots |-> IdleSearch]
    /\ catalog = CatalogWitcher
    /\ catalogLoads = 0
    /\ calls = 0
    /\ scan = IdleScan
    /\ norm = IdleNorm
    /\ gp = [c \in Slots |-> IdlePrices]
    /\ st = [c \in Slots |-> IdleSteam]
    /\ scraperSession = OwnSession
    /\ enhanced = NoEnhanced
    /\ mg = IdleMulti
    /\ idv = IdleId

vars == <<fetch, closed, sg, catalog, catalogLoads, calls, otherVars, gp, st, scraperSession,
          enhanced>>
searchVars == <<sg, catalog, catalogLoads, calls, otherVars, gp, st, scraperSession, enhanced>>

NextFetch ==
    \/ \E t \in Slots : FetchCall(t) /\ UNCHANGED searchVars
    \/ \E t \in Slots : FetchSend(t, Responses) /\ UNCHANGED searchVars
    \/ \E t \in Slots : FetchBackoff(t) /\ UNCHANGED searchVars
    \/ \E t \in Slots : FetchRetry(t, Responses) /\ UNCHANGED searchVars
    \/ \E t \in Slots : FetchRead(t) /\ UNCHANGED searchVars

SpecFetch == InitFetch /\ [][NextFetch]_vars

\* responses of the detail endpoint during searches
SearchResponses ==
    ResponsesOver({ [kind |-> "data", has_price |-> TRUE,
                     price |-> [final |-> 5999, initial |-> 5999, discount |-> 0],
                     is_free |-> FALSE],
                    [kind |-> "data", has_price |-> TRUE,
                     price |-> [final |-> 1999, initial |-> 3999, discount |-> 50],
                     is_free |-> FALSE],
                    [kind |-> "data", has_price |-> FALSE,
                     price |-> [final |-> 0, initial |-> 0, discount |-> 0],
                     is_free |-> FALSE] })

Init ==
    /\ fetch = [t \in Slots |-> IdleFetch]
    /\ closed = {}
    /\ sg = [r \in Slots |-> IdleSearch]
    /\ catalog \in Catalogs
    /\ catalogLoads = 0
    /\ calls = 0
    /\ scan = IdleScan
    /\ norm = IdleNorm
    /\ gp = [c \in Slots |-> IdlePrices]
    /\ st = [c \in Slots |-> IdleSteam]
    /\ scraperSession = OwnSession
    /\ enhanced = NoEnhanced
    /\ mg = IdleMulti
    /\ idv = IdleId

Next ==
    \/ \E r \in Slots : SG_Call(r) /\ UNCHANGED <<otherVars, aggVars>>
    \/ \E r \in Slots : SG_DirectDetails(r) /\ UNCHANGED <<otherVars, aggVars>>
    \/ \E r \in Slots : SG_AliasDetails(r) /\ UNCHANGED <<otherVars, aggVars>>
    \/ \E r \in Slots : SG_RemoteSearch(r, RemoteOutcomes) /\ UNCHANGED <<otherVars, aggVars>>
    \/ \E r \in Slots : SG_StoreDetails(r, Payloads) /\ UNCHANGED <<otherVars, aggVars>>
    \/ \E r \in Slots : SG_GetAppList(r, CatalogOutcomes) /\ UNCHANGED <<otherVars, aggVars>>
    \/ \E r \in Slots : SG_CatalogWait(r) /\ UNCHANGED <<otherVars, aggVars>>
    \/ \E r \in Slots : SG_CatalogDetails(r) /\ UNCHANGED <<otherVars, aggVars>>
    \/ \E r \in Slots : FetchSend(r, SearchResponses) /\ UNCHANGED searchVars
    \/ \E r \in Slots : FetchBackoff(r) /\ UNCHANGED searchVars
    \/ \E r \in Slots : FetchRetry(r, SearchResponses) /\ UNCHANGED searchVars
    \/ \E r \in Slots : FetchRead(r) /\ UNCHANGED searchVars

Spec == Init /\ [][Next]_vars

\* a step of a call that is running (every step but the arrival of a call)
SearchStep ==
    \/ \E r \in Slots : SG_DirectDetails(r) /\ UNCHANGED <<otherVars, aggVars>>
    \/ \E r \in Slots : SG_AliasDetails(r) /\ UNCHANGED <<otherVars, aggVars>>
    \/ \E r \in Slots : SG_RemoteSearch(r, RemoteOutcomes) /\ UNCHANGED <<otherVars, aggVars>>
    \/ \E r \in Slots : SG_StoreDetails(r, Payloads) /\ UNCHANGED <<otherVars, aggVars>>
    \/ \E r \in Slots : SG_GetAppList(r, CatalogOutcomes) /\ UNCHANGED <<otherVars, aggVars>>
    \/ \E r \in Slots : SG_CatalogWait(r) /\ UNCHANGED <<otherVars, aggVars>>
    \/ \E r \in Slots : SG_CatalogDetails(r) /\ UNCHANGED <<otherVars, aggVars>>
    \/ \E r \in Slots : FetchSend(r, SearchResponses) /\ UNCHANGED searchVars
    \/ \E r \in Slots : FetchBackoff(r) /\ UNCHANGED searchVars
    \/ \E r \in Slots : FetchRetry(r, SearchResponses) /\ UNCHANGED searchVars
    \/ \E r \in Slots : FetchRead(r) /\ UNCHANGED searchVars

\* search_game under the event loop: an awaited request returns and the
\* coroutine is resumed, so a running call always takes its next step
SpecLive == Init /\ [][Next]_vars /\ WF_vars(SearchStep)

InitScan ==
    /\ fetch = [t \in Slots |-> IdleFetch]
    /\ closed = {}
    /\ sg = [r \in Slots |-> IdleSearch]
    /\ catalog = CatalogWitcher
    /\ catalogLoads = 0
    /\ calls = 0
    /\ gp = [c \in Slots |-> IdlePrices]
    /\ st = [c \in Slots |-> IdleSteam]
    /\ scraperSession = OwnSession
    /\ enhanced = NoEnhanced
    /\ mg = IdleMulti
    /\ idv = IdleId
    /\ norm = IdleNorm
    /\ \E title \in ScanTitles, apps \in ScanCatalogs :
          scan = [IdleScan EXCEPT !.title = title, !.apps = apps]

NextScan ==
    \/ ScanInSearchGame
          /\ UNCHANGED <<fetchVars, sg, catalog, catalogLoads, calls, aggVars, norm, mg, idv>>
    \/ ScanInSearchMultiple
          /\ UNCHANGED <<fetchVars, sg, catalog, catalogLoads, calls, aggVars, norm, mg, idv>>

SpecScan == InitScan /\ [][NextScan]_vars

InitNorm ==
    /\ fetch = [t \in Slots |-> IdleFetch]
    /\ closed = {}
    /\ sg = [r \in Slots |-> IdleSearch]
    /\ catalog = CatalogWitcher
    /\ catalogLoads = 0
    /\ calls = 0
    /\ scan = IdleScan
    /\ gp = [c \in Slots |-> IdlePrices]
    /\ st = [c \in Slots |-> IdleSteam]
    /\ scraperSession = OwnSession
    /\ enhanced = NoEnhanced
    /\ mg = IdleMulti
    /\ idv = IdleId
    /\ \E name \in NormNames \cup {ExampleTitle} :
          norm = [IdleNorm EXCEPT !.pc = "input", !.name = name]

NextNorm ==
    \/ NormalizeOnce
          /\ UNCHANGED <<fetchVars, sg, catalog, catalogLoads, calls, aggVars, scan, mg, idv>>
    \/ NormalizeAgain
          /\ UNCHANGED <<fetchVars, sg, catalog, catalogLoads, calls, aggVars, scan, mg, idv>>
    \/ NormalizeSpelling
          /\ UNCHANGED <<fetchVars, sg, catalog, catalogLoads, calls, aggVars, scan, mg, idv>>

SpecNorm == InitNorm /\ [][NextNorm]_vars

NextMulti ==
    \/ MG_Call
    \/ MG_GetAppList(CatalogOutcomes)
    \/ MG_CatalogWait
    \/ MG_Gathered
    \/ \E t \in Slots : FetchSend(t, MultiResponses) /\ UNCHANGED searchVars
    \/ \E t \in Slots : FetchBackoff(t) /\ UNCHANGED searchVars
    \/ \E t \in Slots : FetchRetry(t, MultiResponses) /\ UNCHANGED searchVars
    \/ \E t \in Slots : FetchRead(t) /\ UNCHANGED searchVars

SpecMulti == Init /\ [][NextMulti]_vars

InitId ==
    /\ fetch = [t \in Slots |-> IdleFetch]
    /\ closed = {}
    /\ sg = [r \in Slots |-> IdleSearch]
    /\ catalog = CatalogWitcher
    /\ catalogLoads = 0
    /\ calls = 0
    /\ scan = IdleScan
    /\ norm = IdleNorm
    /\ gp = [c \in Slots |-> IdlePrices]
    /\ st = [c \in Slots |-> IdleSteam]
    /\ scraperSession = OwnSession
    /\ enhanced = NoEnhanced
    /\ mg = IdleMulti
    /\ \E token \in Tokens \cup {TitleId} :
          idv = [IdleId EXCEPT !.pc = "input", !.token = token]

NextId ==
    CheckId /\ UNCHANGED <<fetchVars, sg, catalog, catalogLoads, calls, aggVars,
                           scan, norm, mg>>

SpecId == InitId /\ [][NextId]_vars

\* what the upstreams answer while get_prices runs
AggTitles == {TitleExact, TitleId}
AggRemote ==
    { [kind |-> "noitems", hit |-> NoCandidate],
      [kind |-> "items", hit |-> [id |-> 10, name |-> <<"W"," ","3",":"," ","X">>]] }
AggCatalog == {"ok"}
AggResponses ==
    ResponsesOver({ [kind |-> "data", has_price |-> TRUE,
                     price |-> [final |-> 5999, initial |-> 5999, discount |-> 0],
                     is_free |-> FALSE] })
AggPayloads ==
    { [kind |-> "data", has_price |-> TRUE,
       price |-> [final |-> 5999, initial |-> 5999, discount |-> 0],
       is_free |-> FALSE],
      [kind |-> "nosuccess", has_price |-> FALSE,
       price |-> [final |-> 0, initial |-> 0, discount |-> 0], is_free |-> FALSE] }

NextAgg ==
    \/ \E c \in Slots : GP_Call(c, AggTitles)
    \/ \E c \in Slots : ST_Start(c)
    \/ \E c \in Slots : ST_EnhancedReturned(c)
    \/ \E c \in Slots : ST_FallbackSearch(c, AggRemote)
    \/ \E c \in Slots : ST_Schema(c)
    \/ \E c \in Slots : ST_Store(c, AggPayloads)
    \/ \E c \in Slots : EP_Search(c)
    \/ \E c \in Slots, a \in RequestAdapters : AD_Search(c, a, ProductOutcomes)
    \/ \E c \in Slots : GP_Deadline(c)
    \/ \E c \in Slots : GP_Return(c)
    \/ \E r \in Slots : SG_DirectDetails(r) /\ UNCHANGED <<otherVars, aggVars>>
    \/ \E r \in Slots : SG_RemoteSearch(r, AggRemote) /\ UNCHANGED <<otherVars, aggVars>>
    \/ \E r \in Slots : SG_StoreDetails(r, AggPayloads) /\ UNCHANGED <<otherVars, aggVars>>
    \/ \E r \in Slots : SG_GetAppList(r, AggCatalog) /\ UNCHANGED <<otherVars, aggVars>>
    \/ \E r \in Slots : SG_CatalogDetails(r) /\ UNCHANGED <<otherVars, aggVars>>
    \/ \E r \in Slots : FetchSend(r, AggResponses) /\ UNCHANGED searchVars
    \/ \E r \in Slots : FetchBackoff(r) /\ UNCHANGED searchVars
    \/ \E r \in Slots : FetchRetry(r, AggResponses) /\ UNCHANGED searchVars
    \/ \E r \in Slots : FetchRead(r) /\ UNCHANGED searchVars

SpecAgg == InitFetch /\ [][NextAgg]_vars

\* two callers of one aggregator at a time; every storefront that can be
\* reached answers with an item
ConcTitles == {TitleId}
ConcResponses ==
    { [status |-> StatusOk,
       payload |-> [kind |-> "data", has_price |-> TRUE,
                    price |-> [final |-> 5999, initial |-> 5999, discount |-> 0],
                    is_free |-> FALSE]] }
ConcPayloads ==
    { [kind |-> "data", has_price |-> TRUE,
       price |-> [final |-> 5999, initial |-> 5999, discount |-> 0],
       is_free |-> FALSE] }
ConcRemote ==
    IF scraperSession \in closed
    THEN { [kind |-> "error", hit |-> NoCandidate] }
    ELSE { [kind |-> "items", hit |-> [id |-> 10, name |-> <<"W"," ","3",":"," ","X">>]] }
ConcProducts ==
    IF scraperSession \in closed THEN { [kind |-> "error"] } ELSE { [kind |-> "items"] }

NextConc ==
    \/ \E c \in Slots : GP_CallConcurrent(c, ConcTitles)
    \/ \E c \in Slots : ST_Start(c)
    \/ \E c \in Slots : ST_EnhancedReturned(c)
    \/ \E c \in Slots : ST_FallbackSearch(c, ConcRemote)
    \/ \E c \in Slots : ST_Schema(c)
    \/ \E c \in Slots : ST_Store(c, ConcPayloads)
    \/ \E c \in Slots : EP_Search(c)
    \/ \E c \in Slots, a \in RequestAdapters : AD_Search(c, a, ConcProducts)
    \/ \E c \in Slots : GP_Return(c)
    \/ \E r \in Slots : SG_DirectDetails(r) /\ UNCHANGED <<otherVars, aggVars>>
    \/ \E r \in Slots : FetchSend(r, ConcResponses) /\ UNCHANGED searchVars
    \/ \E r \in Slots : FetchRead(r) /\ UNCHANGED searchVars

SpecConc == InitFetch /\ [][NextConc]_vars

(***************************************************************************)
(* Properties                                                              *)
(***************************************************************************)
Returned(r) == sg[r].pc = "done"

\* position of a stage in a trace (0 when absent)
StageAt(trace, stage) ==
    IF \E i \in 1..Len(trace) : trace[i] = stage
    THEN CHOOSE i \in 1..Len(trace) : trace[i] = stage
    ELSE 0

\* C1: once a stage has produced a candidate and its detail fetch yields
\* NotAvailable, the request is over with no quote: it enters no later stage
\* and sends no further search request.
C1_NotAvailableEndsRequest ==
    \A r \in Slots : sg[r].na => (Returned(r) /\ sg[r].result = None)

\* C5: a detail fetch that got 429 and then 200 with a price block returns a
\* quote built from the second response, after exactly one retry (sync and
\* async fetcher alike).
C5_RetryYieldsQuote ==
    \A t \in Slots :
        ( /\ fetch[t].pc = "done"
          /\ fetch[t].resp1.status = StatusRateLimited
          /\ fetch[t].resp2.status = StatusOk
          /\ fetch[t].resp2.payload.kind = "data"
          /\ fetch[t].resp2.payload.has_price )
        => /\ fetch[t].reqs = 2
           /\ fetch[t].result # None
           /\ fetch[t].result.price_numeric = Div100(fetch[t].resp2.payload.price.final)

StageOrder == <<"Direct", "Alias", "Remote", "CatalogLoad", "Exact", "Substring">>
StageRank(stage) == CHOOSE i \in 1..Len(StageOrder) : StageOrder[i] = stage

C7_CatalogFetchedOnce == catalogLoads <= 1

\* C8: when every catalog load attempt has failed the call raises
\* CatalogUnavailable, which the caller can tell from NotFound.
C8_LoadFailureRaised ==
    \A r \in Slots :
        (Returned(r) /\ sg[r].load_failed) => sg[r].raised = "CatalogUnavailable"

\* C9: no returned quote comes from a candidate whose name contains an
\* excluded term, whichever stage produced the candidate.
C9_NoExcludedCandidateQuoted ==
    \A r \in Slots :
        (Returned(r) /\ sg[r].result # None) => ~HasExcludedTerm(sg[r].result.cand_name)

\* positions of the listing whose entry matches exactly / by containment
ExactPositions(apps, q) ==
    { i \in 1..Len(apps) :
        normalize_game_name(apps[i].name) = q /\ ~HasExcludedTerm(apps[i].name) }
ContainPositions(apps, q) ==
    { i \in 1..Len(apps) :
        StrContains(normalize_game_name(apps[i].name), q) /\ ~HasExcludedTerm(apps[i].name) }

\* results lists exactly the entries at the given positions, in listing order
ListsInOrder(results, apps, positions) ==
    /\ Len(results) = Cardinality(positions)
    /\ \A k \in 1..Len(results) :
          /\ results[k].appid \in positions
          /\ results[k] = apps[results[k].appid]
          /\ k > 1 => results[k-1].appid < results[k].appid

\* C10: when some non-excluded entry equals the query after normalisation,
\* the candidates are exactly the exact matches in listing order; contains
\* matches (in listing order) are the candidates only when there is no exact
\* match.
C10_ExactBeforeSubstring ==
    scan.by # "nobody" =>
        LET q == normalize_game_name(scan.title)
            E == ExactPositions(scan.apps, q)
        IN  IF E # {}
            THEN ListsInOrder(scan.results, scan.apps, E)
            ELSE ListsInOrder(scan.results, scan.apps, ContainPositions(scan.apps, q))

C10_Witness ==
    /\ scan.by = "search_game"
    /\ Len(scan.results) = 2
    /\ Len(scan.apps) = 3
    /\ Cardinality(ExactPositions(scan.apps, normalize_game_name(scan.title))) = 2
    /\ Cardinality(ContainPositions(scan.apps, normalize_game_name(scan.title))) = 3

PricesReturned(c) == gp[c].pc = "done"

\* C2: when no storefront has a match for the title (no storefront request
\* was answered with an item), get_prices returns no quote and raises nothing.
C2_UnknownTitleEmpty ==
    \A c \in Slots :
        ( /\ PricesReturned(c)
          /\ gp[c].hits = {}
          /\ \A a \in AdapterSet : gp[c].results[a] # Raised )
        => (gp[c].prices = <<>> /\ gp[c].raised = "nothing")

\* C3: once the overall timeout of a get_prices call is over, the result of
\* an adapter that is still running is discarded: it never becomes one of the
\* gathered results.
C3_LateResultDiscarded ==
    [][ \A c \in Slots, a \in AdapterSet :
          (gp[c].pc = "gather" /\ gp[c].timed_out /\ gp[c].results[a] = Pending)
          => (gp'[c].pc = "gather" => gp'[c].results[a] = Pending) ]_vars

\* C4: whichever adapters raise or return no quote, get_prices returns exactly
\* the quotes of the other adapters and does not raise.
C4_FailuresIsolated ==
    \A c \in Slots :
        PricesReturned(c) =>
            LET quoted == {a \in AdapterSet : IsQuote(gp[c].results[a])}
            IN  /\ gp[c].raised = "nothing"
                /\ Len(gp[c].prices) = Cardinality(quoted)
                /\ \A a \in quoted :
                      \E k \in 1..Len(gp[c].prices) : gp[c].prices[k] = gp[c].results[a]
                /\ \A k \in 1..Len(gp[c].prices) :
                      \E a \in quoted : gp[c].prices[k] = gp[c].results[a]

C4_Witness ==
    \E c \in Slots :
        /\ PricesReturned(c)
        /\ gp[c].results["Steam"] = Raised
        /\ gp[c].results["GOG"] = None
        /\ IsQuote(gp[c].results["Xbox Store"])
        /\ Len(gp[c].prices) = 2

\* C11: a call whose title is a positive integer is resolved as Direct to that
\* very identifier, whatever the catalog holds: its only stage is Direct, its
\* only detail fetch is for that identifier, and it sends no live search, loads
\* no catalog and consults no alias.
C11_DirectIdOnly ==
    \A r \in Slots :
        (sg[r].pc # "idle" /\ is_valid_app_id(sg[r].title)) =>
            /\ sg[r].trace = <<"Direct">>
            /\ sg[r].pc \in {"direct", "done"}
            /\ sg[r].cand.id = ParseInt(sg[r].title).val
            /\ fetch[r].pc # "idle" => fetch[r].appid = ParseInt(sg[r].title).val
            /\ (Returned(r) /\ sg[r].result # None)
                  => /\ sg[r].result.appid = ParseInt(sg[r].title).val
                     /\ sg[r].result.stage = "Direct"

C11_Witness ==
    \E r \in Slots :
        /\ Returned(r)
        /\ sg[r].title = TitleId
        /\ catalog = CatalogOther
        /\ sg[r].result = None
        /\ sg[r].na

\* C12: the titles "csgo", "cs go" and "cs:go" are resolved by the alias table
\* to one identifier, and a call for any of them never loads the catalog nor
\* takes a candidate from anywhere else.
C12_AliasResolvesWithoutCatalog ==
    \A r \in Slots :
        (sg[r].pc # "idle" /\ sg[r].title \in AliasTitles) =>
            /\ sg[r].trace = <<"Alias">>
            /\ sg[r].cand.id = CsgoAppId
            /\ (Returned(r) /\ sg[r].result # None) => sg[r].result.appid = CsgoAppId

\* C13: normalize_game_name gives the same result when applied to its own
\* result, and the same result for a name and for any other spelling of it
\* (letter case, colons, a hyphen for a blank, doubled blanks); so it does for
\* "Counter-Strike: Global Offensive" and "counter strike global offensive".
C13_NormalizeIdempotentInsensitive ==
    /\ norm.pc = "twice" => norm.twice = norm.once
    /\ norm.pc = "spelling" => norm.other_once = norm.once

C13_Witness ==
    /\ norm.pc = "spelling"
    /\ norm.name = ExampleTitle
    /\ norm.other = ExamplePlain
    /\ norm.other_once = ExamplePlain
    /\ norm.once = ExamplePlain

\* C14: whenever search_game returns a quote built from an appdetails body
\* that has a price block, the quote's price is that block's final minor-unit
\* amount divided by 100 (5999 gives 59.99), whichever stage built the quote.
C14_PriceIsMinorUnitsOver100 ==
    \A r \in Slots :
        ( /\ Returned(r) /\ sg[r].result # None
          /\ sg[r].payload.kind = "data" /\ sg[r].payload.has_price )
        => /\ sg[r].result.price.whole * 100 + sg[r].result.price.cents
                 = sg[r].payload.price.final
           /\ sg[r].result.price.cents \in 0..99

C14_Witness ==
    \E r \in Slots :
        /\ Returned(r) /\ sg[r].result # None
        /\ sg[r].result.stage = "Remote"
        /\ sg[r].payload.has_price /\ sg[r].payload.price.final = 5999
        /\ sg[r].result.price = [whole |-> 59, cents |-> 99]

\* C15: a quote of search_game carries an initial price only when its
\* discount is above 0; with a discount of 0 the initial price is absent.
C15_InitialPriceOnlyWhenDiscounted ==
    \A r \in Slots :
        (Returned(r) /\ sg[r].result # None /\ sg[r].result.discount_percent = 0)
        => sg[r].result.initial_price = None

\* C20: a detail fetch raises nothing to its caller: when the request fails,
\* when the 200 body is no JSON, and when the entry has its success flag but no
\* data object (or an empty one), the call returns None.
C20_FetchNeverRaises ==
    \A t \in Slots :
        /\ fetch[t].raised = "nothing"
        /\ (fetch[t].pc = "done" /\ fetch[t].reqs = 0) => fetch[t].result = None
        /\ ( /\ fetch[t].pc = "done"
             /\ CurrentResponse(fetch[t]).status = StatusOk
             /\ CurrentResponse(fetch[t]).payload.kind
                    \in {"badjson", "noentry", "nosuccess", "nodata", "emptydata"} )
           => fetch[t].result = None

C20_Witness ==
    \E t \in Slots :
        /\ fetch[t].pc = "done"
        /\ fetch[t].mode = "async"
        /\ fetch[t].reqs = 1
        /\ fetch[t].resp1.status = StatusOk
        /\ fetch[t].resp1.payload.kind = "nodata"
        /\ fetch[t].result = None
        /\ fetch[t].raised = "nothing"

\* C16: the mapping get_multiple_game_prices returns has an entry for every
\* platform of the aggregator: the quotes of the bulk search under "Steam" and
\* an empty sequence under every other platform.
C16_EveryPlatformHasEntry ==
    (mg.pc = "done" /\ mg.raised = "nothing") =>
        /\ DOMAIN mg.mapping = AdapterSet
        /\ mg.mapping["Steam"] = mg.results
        /\ \A a \in AdapterSet \ {"Steam"} : mg.mapping[a] = <<>>

\* a step of the detail fetch in slot u
FetchStep(u) ==
    \/ FetchSend(u, MultiResponses)
    \/ FetchBackoff(u)
    \/ FetchRetry(u, MultiResponses)
    \/ FetchRead(u)

\* C19: while a detail fetch of search_multiple_games waits out its 5-second
\* backoff, every sibling fetch that has not finished can take its next step
\* (send its request, retry, read its answer and so complete).
C19_BackoffBlocksNoSibling ==
    \A t \in Slots, u \in Slots :
        ( /\ t # u
          /\ fetch[t].pc = "backoff"
          /\ fetch[u].pc \in {"send", "backoff", "retry", "read"} )
        => ENABLED FetchStep(u)

C19_Witness ==
    \E t \in Slots, u \in Slots :
        /\ mg.pc = "gather"
        /\ fetch[t].pc = "backoff"
        /\ fetch[u].pc = "done"
        /\ fetch[u].reqs = 1
        /\ fetch[u].result # None

\* C19 for get_prices: while the Steam adapter's detail fetch waits out its
\* backoff, every adapter that has not answered can still send its request.
C19_BackoffBlocksNoAdapter ==
    \A c \in Slots :
        (gp[c].pc = "gather" /\ fetch[c].pc = "backoff") =>
            /\ Gathering(c, "Epic Games") => ENABLED EP_Search(c)
            /\ \A a \in RequestAdapters : Gathering(c, a) => ENABLED AD_Search(c, a, ProductOutcomes)

\* C17: the quotes get_prices returns come from pairwise different adapters
\* and have pairwise different urls, whatever the adapters answered.
C17_OneQuotePerAdapterAndUrl ==
    \A c \in Slots :
        PricesReturned(c) =>
            /\ Len(gp[c].prices) <= Len(AdapterNames)
            /\ \A i, j \in 1..Len(gp[c].prices) :
                  i # j => /\ gp[c].prices[i].platform # gp[c].prices[j].platform
                           /\ gp[c].prices[i].url.host # gp[c].prices[j].url.host
                              \/ gp[c].prices[i].url.tail # gp[c].prices[j].url.tail

C17_Witness ==
    \E c \in Slots :
        /\ PricesReturned(c)
        /\ Len(gp[c].prices) = Len(AdapterNames)
        /\ gp[c].prices[1].platform = "Steam"
        /\ gp[c].prices[3].url = [host |-> "www.gog.com", tail |-> ProductId]

\* C18: two get_prices calls that overlap on one aggregator share nothing:
\* while a call gathers, the session its adapters send their requests through
\* and the session of its Steam search are the session that call opened, that
\* session is open, and no adapter whose storefront has the title comes back
\* without a quote.
C18_CallsShareNoSession ==
    \A c \in Slots :
        /\ (gp[c].pc = "gather" /\ \E a \in RequestAdapters : gp[c].results[a] = Pending)
              => (scraperSession = gp[c].session /\ scraperSession \notin closed)
        /\ (gp[c].pc = "gather" /\ sg[c].pc # "idle") => sg[c].session = gp[c].session
        /\ \A a \in RequestAdapters : gp[c].results[a] # None

\* position of an app in the listing
CatalogPosition(appid) == CHOOSE i \in 1..Len(catalog) : catalog[i].appid = appid

\* C21: search_multiple_games(title, limit) returns at most limit quotes, and
\* none for a limit of 0 or below; every quote is for one of the first limit
\* candidates of the scan, and the quotes are in listing order.
C21_AtMostLimitInCatalogOrder ==
    (mg.pc = "done" /\ mg.raised = "nothing") =>
        LET candidates == MatchedApps(catalog, mg.normalized_search)
            cap == IF mg.limit > 0 THEN mg.limit ELSE 0
        IN  /\ Len(mg.results) <= cap
            /\ \A k \in 1..Len(mg.results) :
                  /\ \E i \in 1..Len(candidates) :
                        i <= cap /\ candidates[i].appid = mg.results[k].appid
                  /\ k > 1 => CatalogPosition(mg.results[k-1].appid)
                                 < CatalogPosition(mg.results[k].appid)

\* C27: the bulk search takes the candidates the single search takes: for a
\* title that is an app id its one candidate is that id, for an alias title
\* the alias's id; it does not scan the listing for such a title.
C27_BulkUsesResolverCandidates ==
    (mg.pc = "done" /\ mg.raised = "nothing" /\ catalogLoads > 0
       /\ (is_valid_app_id(mg.title) \/ InPopular(mg.normalized_search))) =>
        /\ mg.tasks = 1
        /\ mg.matched_apps[1].appid
              = (IF is_valid_app_id(mg.title) THEN ParseInt(mg.title).val
                 ELSE PopularId(mg.normalized_search))

\* a token that reads as a whole number above zero: between optional blanks,
\* an optional "+" and then digits, not all of them 0, which single
\* underscores may separate
ReadsAsPositiveInteger(s) ==
    \E a \in 0..Len(s), b \in 0..Len(s) :
        /\ a < b
        /\ \A i \in 1..a : s[i] = " "
        /\ \A i \in (b+1)..Len(s) : s[i] = " "
        /\ LET first == IF s[a+1] = "+" THEN a + 2 ELSE a + 1
           IN  /\ first <= b
               /\ IsDigit(s[first]) /\ IsDigit(s[b])
               /\ \A i \in first..b : IsDigit(s[i]) \/ s[i] = "_"
               /\ \A i \in first..(b-1) : s[i] = "_" => s[i+1] # "_"
               /\ \E i \in first..b : IsDigit(s[i]) /\ s[i] # "0"

\* C22: is_valid_app_id(token) is true exactly for the tokens that read as a
\* positive integer; for zero, negative numbers, the empty string and text
\* that is no number it is false, and it raises nothing.
C22_ValidIffPositiveInteger ==
    idv.pc = "done" =>
        /\ idv.valid = ReadsAsPositiveInteger(idv.token)
        /\ idv.raised = "nothing"
        /\ idv.token \in { <<>>, <<"0">>, <<"-","7">>, <<"a">>, <<"7","a">> }
              => ~idv.valid

C22_Witness ==
    /\ idv.pc = "done"
    /\ idv.token = <<" ","7","0">>
    /\ idv.valid

\* C23: one fetch sends at most two requests; the second is sent only after
\* the first was answered 429 and RateLimitWait seconds were slept; when the
\* last response is not 200 (a second 429 included) the fetch returns None
\* and sends nothing more.
C23_AtMostTwoRequests ==
    \A t \in Slots :
        LET f == fetch[t]
        IN  /\ f.reqs <= 2
            /\ f.pc = "send" => f.reqs = 0
            /\ (f.pc = "retry" \/ f.reqs = 2) =>
                   /\ f.resp1.status = StatusRateLimited
                   /\ f.waited = RateLimitWait
            /\ f.pc = "retry" => f.reqs = 1
            /\ f.reqs = 2 => f.pc \in {"read", "done"}
            /\ (f.pc = "done" /\ f.reqs >= 1 /\ CurrentResponse(f).status # StatusOk)
                   => f.result = None /\ f.raised = "nothing"

C23_Witness ==
    \E t \in Slots :
        /\ fetch[t].pc = "done"
        /\ fetch[t].reqs = 2
        /\ fetch[t].resp2.status = StatusRateLimited
        /\ fetch[t].result = None

\* C24 as stated: a catalog load whose fetch keeps failing is retried 3
\* times (after the first attempt) before the call gives up.
C24_ThreeRetries ==
    \A r \in Slots :
        (Returned(r) /\ sg[r].load_failed) => sg[r].attempt = max_retries

\* C24: the catalog load is attempted at most max_retries (3) times in all,
\* the first attempt and at most 2 retries; CatalogRetryWait seconds are
\* slept before each retry and at no other time, so a load that keeps failing
\* gives up after 3 attempts and 2 waits with no wait after the last failure;
\* once an attempt has succeeded there is no further attempt and no wait.
C24_ThreeAttemptsTwoWaits ==
    /\ [](\A r \in Slots :
            /\ sg[r].attempt <= max_retries - 1
            /\ sg[r].waited = CatalogRetryWait * sg[r].attempt
            /\ sg[r].pc = "catwait" => sg[r].attempt < max_retries - 1
            /\ (Returned(r) /\ sg[r].load_failed) =>
                   /\ sg[r].attempt = max_retries - 1
                   /\ sg[r].waited = CatalogRetryWait * (max_retries - 1))
    /\ [][\A r \in Slots :
            sg[r].pc = "catfetch" =>
               /\ sg'[r].pc \in {"catfetch", "done"}
               /\ sg'[r].attempt = sg[r].attempt
               /\ sg'[r].waited = sg[r].waited]_vars

C24_Witness ==
    \E r \in Slots :
        /\ Returned(r) /\ sg[r].load_failed
        /\ sg[r].attempt = 2 /\ sg[r].waited = 4

\* the body has an entry with success set and a non-empty data object that
\* carries a price block or the is-free mark
Quotable(p) == p.kind = "data" /\ (p.has_price \/ p.is_free)

\* C25: when the response a fetch ends on is a 200, the fetch returns a quote
\* if and only if the body is quotable; the price block wins over the is-free
\* mark, and a free item without a price block is quoted at price 0,
\* discount 0, without an initial price.
C25_QuoteIffPricedOrFree ==
    \A t \in Slots :
        LET f == fetch[t]
            p == CurrentResponse(f).payload
        IN  (f.pc = "done" /\ f.reqs >= 1 /\ CurrentResponse(f).status = StatusOk) =>
                /\ (f.result # None) <=> Quotable(p)
                /\ (f.result # None /\ p.has_price) =>
                       /\ ~f.result.free_to_play
                       /\ f.result.price_numeric = Div100(p.price.final)
                       /\ f.result.discount = p.price.discount
                /\ (f.result # None /\ ~p.has_price) =>
                       /\ f.result.free_to_play
                       /\ f.result.price_numeric = Div100(0)
                       /\ f.result.discount = 0
                       /\ ~f.result.has_initial_price

\* C26: a quote returned by search_game is for an item whose detail body
\* carries a price block or the is-free mark; an item with neither gets no
\* quote on any path, the live free-text search included.
C26_NoQuoteForUnpriced ==
    \A r \in Slots :
        (Returned(r) /\ sg[r].result # None) => Quotable(sg[r].payload)

\* C26 on the stages that fetch details through get_game_details_async
C26_DetailStagesOnly ==
    \A r \in Slots :
        (Returned(r) /\ sg[r].result # None /\ sg[r].result.stage # "Remote")
            => Quotable(sg[r].payload)

\* C28: over get_prices calls that follow one another on one aggregator,
\* while the Steam adapter of a call searches through its enhanced scraper
\* the requests go through the session that call opened, and never through a
\* session that an earlier call closed when it returned.
C28_RequestsUseCallSession ==
    \A c \in Slots :
        (gp[c].pc = "gather" /\ sg[c].pc \notin {"idle", "done"}) =>
            /\ sg[c].session = gp[c].session
            /\ sg[c].session \notin closed

\* C28 for the first call made on the aggregator
C28_FirstCallOnly ==
    \A c \in Slots :
        (gp[c].pc = "gather" /\ sg[c].pc \notin {"idle", "done"} /\ calls = 1) =>
            /\ sg[c].session = gp[c].session
            /\ sg[c].session \notin closed

\* C29: every search_game call returns (with a quote or without one) once
\* its requests return; on the way every detail fetch sends at most two
\* requests, the catalog is requested at most max_retries times, and no
\* stage is entered twice.
C29_SearchTerminates ==
    /\ [](\A r \in Slots :
            /\ fetch[r].reqs <= 2
            /\ sg[r].attempt < max_retries
            /\ \A i, j \in 1..Len(sg[r].trace) :
                  i # j => sg[r].trace[i] # sg[r].trace[j])
    /\ \A r \in Slots : (sg[r].pc \notin {"idle", "done"}) ~> Returned(r)

C29_Witness ==
    \E r \in Slots :
        /\ Returned(r)
        /\ sg[r].trace = <<"Alias", "Remote", "CatalogLoad">>
        /\ sg[r].attempt = max_retries - 1
        /\ sg[r].result = None

\* C30: on the catalog scan path search_game fetches the details of the
\* first result of the scan and of no other: when that fetch gives no details
\* the call returns no quote although further results exist, and a returned
\* quote is for the first result.
C30_OnlyFirstCandidateFetched ==
    /\ [](\A r \in Slots :
            /\ sg[r].pc = "catfetch" =>
                   /\ sg[r].results # <<>>
                   /\ fetch[r].pc # "idle"
                   /\ fetch[r].appid = sg[r].results[1].appid
            /\ (Returned(r) /\ sg[r].results # <<>> /\ sg[r].result # None) =>
                   sg[r].result.appid = sg[r].results[1].appid)
    /\ [][\A r \in Slots :
            (sg[r].pc = "catfetch" /\ sg'[r] # sg[r]) =>
               /\ fetch[r].pc = "done"
               /\ sg'[r].pc = "done"
               /\ fetch[r].result = None => sg'[r].result = None]_vars

C30_Witness ==
    \E r \in Slots :
        /\ Returned(r)
        /\ Len(sg[r].results) >= 2
        /\ sg[r].payload.kind = "data" /\ ~Quotable(sg[r].payload)
        /\ sg[r].result = None

====
